---------------------------- MODULE Spec2Model ----------------------------
(***************************************************************************)
(* A model of the JPEG-2000 container reader/writer of exiv2               *)
(* (src/src/jp2image.cpp): Jp2Image::readMetadata, Jp2Image::writeMetadata,*)
(* Jp2Image::doWriteMetadata and Jp2Image::encodeJp2Header.                *)
(*                                                                         *)
(* Files are byte sequences (bytes are 0..255), offsets are 0-based as in  *)
(* the source, and every constant of the source keeps its value.  One      *)
(* action is one loop iteration of the source; the step operators are pure *)
(* so that a whole call can also be replayed on a given file (ReadRun,     *)
(* WriteRun) when a property speaks about re-reading an output.            *)
(*                                                                         *)
(* The byte-stream adapter (BasicIo/MemIo), the scalar codec (getLong,     *)
(* ul2Data), the Image setters and the Exif/IPTC/XMP parsers are not part  *)
(* of the source files at hand; they are modelled from sections 4.A, 4.B,  *)
(* 3 and 4.F of the specification.                                         *)
(***************************************************************************)
EXTENDS Integers, Sequences, FiniteSets, TLC

(***************************************************************************)
(* Constants of the source.                                                *)
(***************************************************************************)
kJp2BoxTypeJp2Header == 1785737832   \* 0x6a703268 'jp2h'
kJp2BoxTypeImageHeader == 1768449138 \* 0x69686472 'ihdr'
kJp2BoxTypeColorHeader == 1668246642 \* 0x636f6c72 'colr'
kJp2BoxTypeUuid == 1970628964        \* 0x75756964 'uuid'
kJp2BoxTypeClose == 1785737827       \* 0x6a703263 'jp2c'

kJp2UuidExif == <<74,112,103,84,105,102,102,69,120,105,102,45,62,74,80,50>>
kJp2UuidIptc == <<51,199,164,210,184,29,71,35,160,186,241,163,224,151,173,56>>
kJp2UuidXmp == <<190,122,207,203,151,169,66,232,156,113,153,148,145,227,175,172>>

Jp2Signature == <<0,0,0,12,106,80,32,32,13,10,135,10>>

Jp2Blank ==
  << 0,0,0,12,106,80,32,32,13,10,135,10,0,0,0,20,
     102,116,121,112,106,112,50,32,0,0,0,0,106,112,50,32,
     0,0,0,45,106,112,50,104,0,0,0,22,105,104,100,114,
     0,0,0,1,0,0,0,1,0,1,7,7,0,0,0,0,
     0,15,99,111,108,114,1,0,0,0,0,0,17,0,0,0,
     0,106,112,50,99,255,79,255,81,0,41,0,0,0,0,0,
     1,0,0,0,1,0,0,0,0,0,0,0,0,0,0,0,
     1,0,0,0,1,0,0,0,0,0,0,0,0,0,1,7,
     1,1,255,100,0,35,0,1,67,114,101,97,116,111,114,58,
     32,74,97,115,80,101,114,32,86,101,114,115,105,111,110,32,
     49,46,57,48,48,46,49,255,82,0,12,0,0,0,1,0,
     5,4,4,0,1,255,92,0,19,64,64,72,72,80,72,72,
     80,72,72,80,72,72,80,72,72,80,255,144,0,10,0,0,
     0,0,0,45,0,1,255,93,0,20,0,64,64,0,0,0,
     0,0,0,0,0,0,0,0,0,0,0,0,255,147,207,180,
     4,0,128,128,128,128,128,255,217 >>

\* sizeof(Jp2BoxHeader), sizeof(Jp2UuidBox), sizeof(Jp2ImageHeaderBox)
SizeofBox == 8
SizeofUuid == 16
SizeofIhdr == 16

\* size_t boxem = 1000 : the reader's box budget
boxem == 1000

(***************************************************************************)
(* Byte helpers.                                                           *)
(***************************************************************************)
Min(a, b) == IF a < b THEN a ELSE b

\* The n bytes of buf from 0-based offset off (fewer when buf ends first).
Slice(buf, off, n) ==
  IF off >= Len(buf) \/ n <= 0 THEN << >>
  ELSE SubSeq(buf, off + 1, Min(off + n, Len(buf)))

\* The largest value of TLC's integers; a 32-bit field whose top bit is set
\* saturates to it.  Every such value is compared against a stream
\* size (below 2^31) before the source does any arithmetic on it, so the
\* comparison's outcome is that of the unsigned 32-bit value.
U32Sat == 2147483647

\* getLong(buf + off, bigEndian): the 32-bit big-endian value at off.
getLong(buf, off) ==
  IF buf[off + 1] >= 128 THEN U32Sat
  ELSE buf[off + 1] * 16777216 + buf[off + 2] * 65536 + buf[off + 3] * 256 + buf[off + 4]

\* ul2Data(buf, v, bigEndian): the four big-endian bytes of v.
ul2Data(v) ==
  << (v \div 16777216) % 256, (v \div 65536) % 256, (v \div 256) % 256, v % 256 >>

\* DataBuf::cmpBytes(off, bytes, n) == 0
cmpBytes(buf, off, bytes) == Slice(buf, off, Len(bytes)) = bytes

(***************************************************************************)
(* The byte-stream adapter (specification 4.A): read returns the bytes     *)
(* that are there, a short read is not an error; seek fails only for a     *)
(* negative position.                                                      *)
(***************************************************************************)
IoRead(f, pos, n) == Slice(f, pos, n)

IoSeekFails(newpos) == newpos < 0

(***************************************************************************)
(* The metadata facade (specification 4.F).  A collection is a sequence of *)
(* datum bytes.  The encoders produce a framed byte string and the         *)
(* decoders undo the framing or fail.                                      *)
(***************************************************************************)
TiffHeaderII == <<73,73,42,0,8,0,0,0>>
TiffHeaderMM == <<77,77,0,42,0,0,0,8>>

\* ExifParser::encode(blob, littleEndian, exifData): empty for no datums.
ExifEncode(d) == IF d = << >> THEN << >> ELSE TiffHeaderII \o d

\* TiffParser::decode: the datums and the byte order, or a failure, on which
\* the collection is left empty.
TiffDecode(bytes) ==
  IF Len(bytes) > 8 /\ Slice(bytes, 0, 8) = TiffHeaderII
    THEN [ok |-> TRUE, exif |-> Slice(bytes, 8, Len(bytes) - 8), bo |-> "littleEndian"]
  ELSE IF Len(bytes) > 8 /\ Slice(bytes, 0, 8) = TiffHeaderMM
    THEN [ok |-> TRUE, exif |-> Slice(bytes, 8, Len(bytes) - 8), bo |-> "bigEndian"]
  ELSE [ok |-> FALSE, exif |-> << >>, bo |-> "invalidByteOrder"]

\* IptcParser::encode: one record <<0x1c, v>> per datum.
RECURSIVE IptcEncode(_)
IptcEncode(d) == IF d = << >> THEN << >> ELSE <<28, Head(d)>> \o IptcEncode(Tail(d))

\* IptcParser::decode: the datums, or a failure.
RECURSIVE IptcDecode(_)
IptcDecode(bytes) ==
  IF bytes = << >> THEN [ok |-> TRUE, iptc |-> << >>]
  ELSE IF Len(bytes) < 2 \/ bytes[1] # 28 THEN [ok |-> FALSE, iptc |-> << >>]
  ELSE LET r == IptcDecode(Slice(bytes, 2, Len(bytes) - 2))
       IN  IF r.ok THEN [ok |-> TRUE, iptc |-> <<bytes[2]>> \o r.iptc]
           ELSE r

\* XmpParser::encode(xmpPacket, xmpData): the packet text of the datums; no
\* datums give the empty packet.
XmpEncode(d) == IF d = << >> THEN << >> ELSE <<60>> \o d \o <<62>>

\* XmpParser::decode(xmpData, xmpPacket): the datums of a packet "<...>", or a
\* failure, on which the collection is left empty.
XmpDecode(p) ==
  IF Len(p) > 2 /\ p[1] = 60 /\ p[Len(p)] = 62
    THEN [ok |-> TRUE, xmp |-> Slice(p, 1, Len(p) - 2)]
  ELSE [ok |-> FALSE, xmp |-> << >>]

(***************************************************************************)
(* The image (specification 3, "Image model").                             *)
(***************************************************************************)
EmptyImage ==
  [ exifData |-> << >>, iptcData |-> << >>, xmpData |-> << >>, xmpPacket |-> << >>,
    iccProfile |-> << >>, pixelWidth |-> 0, pixelHeight |-> 0,
    byteOrder |-> "invalidByteOrder", writeXmpFromPacket |-> FALSE ]

\* Image::iccProfileDefined()
iccProfileDefined(im) == Len(im.iccProfile) # 0


(***************************************************************************)
(* Jp2Image::readMetadata.  The locals of the call:                        *)
(*   pc        "box" (top-level loop), "sub" (jp2h sub-box loop), "done"   *)
(*   err       "none", or the error kind thrown                            *)
(*   pos       io_->tell()                                                 *)
(*   position, boxLength   the current top-level box                       *)
(*   restore   the current sub-box's offset                                *)
(*   boxes     boxes visited so far                                        *)
(*   ihdr      the first 8 bytes of the Jp2ImageHeaderBox local, as they   *)
(*             lie in memory                                               *)
(***************************************************************************)
ReadLocals0 ==
  [ pc |-> "box", err |-> "none", pos |-> 0, position |-> 0, boxLength |-> 0,
    restore |-> 0, boxes |-> 0, ihdr |-> <<0,0,0,0,0,0,0,0>> ]

Thrown(rd, e) == [rd EXCEPT !.pc = "done", !.err = e]

Returned(rd) == [rd EXCEPT !.pc = "done", !.err = "none"]

\* A type check that takes any 12 bytes for the signature.
isJp2TypeAnySignature(f) == IF Len(IoRead(f, 0, 12)) < 12 THEN "short" ELSE "matched"

\* isJp2Type(iIo, advance): "short" when the 12 bytes cannot be read (eof),
\* else whether they are the signature.
isJp2Type(f) ==
  IF Len(IoRead(f, 0, 12)) < 12 THEN "short"
  ELSE IF IoRead(f, 0, 12) = Jp2Signature THEN "matched" ELSE "other"

\* boxes_check(b, m)
boxes_check(b, m) == b > m

\* readMetadata up to its loop: the type check.
ReadBegin(f, im) ==
  LET t == isJp2Type(f) IN
  [ img |-> im,
    rd  |-> IF t = "short" THEN Thrown(ReadLocals0, "kerFailedToReadImageData")
            ELSE IF t = "other" THEN Thrown(ReadLocals0, "kerNotAnImage")
            ELSE [ReadLocals0 EXCEPT !.pos = 12] ]

\* A reader that seeks back to the start of the box it has just read.
NextBoxPosNoAdvance(position, length) == position - SizeofBox

\* "Move to the next box": io_->seek(position - sizeof(box) + box.length, beg).
NextBoxPos(position, length) == position - SizeofBox + length

MoveToNextBox(rd) == [rd EXCEPT !.pc = "box", !.pos = NextBoxPos(rd.position, rd.boxLength)]

\* The Exif branch of a uuid box: the position of the TIFF stream in rawData
\* (-1 when there is none).
RECURSIVE ExifHeaderSearch(_, _)
ExifHeaderSearch(rawData, i) ==
  IF ~(i < Len(rawData) - 6) THEN -1
  ELSE IF cmpBytes(rawData, i, <<69,120,105,102,0,0>>) THEN i + 6
  ELSE ExifHeaderSearch(rawData, i + 1)

ExifHeaderPos(rawData) ==
  IF rawData[1] = rawData[2] /\ (rawData[1] = 73 \/ rawData[1] = 77) THEN 0
  ELSE ExifHeaderSearch(rawData, 0)

ReadExif(im, rawData) ==
  IF Len(rawData) > 8
    THEN LET pos == ExifHeaderPos(rawData) IN
         IF pos >= 0
           THEN LET r == TiffDecode(Slice(rawData, pos, Len(rawData) - pos)) IN
                [im EXCEPT !.exifData = r.exif, !.byteOrder = r.bo]
         ELSE im
  ELSE [im EXCEPT !.exifData = << >>]

\* A reader that leaves the IPTC collection as it was when decoding fails.
ReadIptcKeeps(im, rawData) ==
  LET r == IptcDecode(rawData) IN
  IF r.ok THEN [im EXCEPT !.iptcData = r.iptc] ELSE im

ReadIptc(im, rawData) ==
  LET r == IptcDecode(rawData) IN
  IF r.ok THEN [im EXCEPT !.iptcData = r.iptc] ELSE [im EXCEPT !.iptcData = << >>]

\* std::string::find_first_of('<'): the 0-based index, -1 for npos.
RECURSIVE FindFirstLt(_, _)
FindFirstLt(s, i) ==
  IF i >= Len(s) THEN -1 ELSE IF s[i + 1] = 60 THEN i ELSE FindFirstLt(s, i + 1)

\* A reader that keeps the packet as it lies in the box.
XmpStripNothing(packet) == packet

XmpStrip(packet) ==
  LET idx == FindFirstLt(packet, 0) IN
  IF idx > 0 THEN Slice(packet, idx, Len(packet) - idx) ELSE packet

ReadXmp(im, rawData) ==
  LET packet == XmpStrip(rawData) IN
  IF packet # << >>
    THEN [im EXCEPT !.xmpPacket = packet, !.xmpData = XmpDecode(packet).xmp]
  ELSE [im EXCEPT !.xmpPacket = packet]

\* case kJp2BoxTypeUuid of readMetadata; rd.pos is the position after the box
\* header.  Gives the image and the error thrown ("none" for none).
ReadUuid(f, im, length, position) ==
  LET uuid == IoRead(f, position, SizeofUuid)
      short == length < SizeofBox + SizeofUuid
      rawData == IoRead(f, position + SizeofUuid, length - (SizeofBox + SizeofUuid))
      shortRead == Len(rawData) # length - (SizeofBox + SizeofUuid)
  IN
  IF Len(uuid) # SizeofUuid THEN [img |-> im, err |-> "none"]
  ELSE IF uuid \in {kJp2UuidExif, kJp2UuidIptc, kJp2UuidXmp}
    THEN IF short THEN [img |-> im, err |-> "kerCorruptedMetadata"]
         ELSE IF shortRead THEN [img |-> im, err |-> "kerInputDataReadFailed"]
         ELSE IF uuid = kJp2UuidExif THEN [img |-> ReadExif(im, rawData), err |-> "none"]
         ELSE IF uuid = kJp2UuidIptc THEN [img |-> ReadIptc(im, rawData), err |-> "none"]
         ELSE [img |-> ReadXmp(im, rawData), err |-> "none"]
  ELSE [img |-> im, err |-> "none"]

\* A check that lets a box run up to 8 bytes past the end of the stream.
BoxLengthFitsLoose(length, size, tell) == length <= 2 * SizeofBox + size - tell

\* enforce(box.length <= sizeof(box) + io_->size() - io_->tell(), ...)
BoxLengthFits(length, size, tell) == length <= SizeofBox + size - tell

\* One iteration of the top-level loop of readMetadata.
ReadBox(f, im, rd) ==
  LET hdr == IoRead(f, rd.pos, SizeofBox)
      position == rd.pos + SizeofBox
      length == getLong(hdr, 0)
      type == getLong(hdr, 4)
      rd1 == [rd EXCEPT !.boxes = rd.boxes + 1, !.position = position,
                        !.boxLength = length, !.pos = position]
  IN
  IF Len(hdr) # SizeofBox THEN [img |-> im, rd |-> Returned(rd)]
  ELSE IF boxes_check(rd.boxes, boxem) THEN [img |-> im, rd |-> Thrown(rd1, "kerCorruptedMetadata")]
  ELSE IF ~BoxLengthFits(length, Len(f), position)
    THEN [img |-> im, rd |-> Thrown(rd1, "kerCorruptedMetadata")]
  ELSE IF length = 0 THEN [img |-> im, rd |-> Returned(rd1)]
  ELSE IF type = kJp2BoxTypeJp2Header
    THEN [img |-> im, rd |-> [rd1 EXCEPT !.pc = "sub", !.restore = position]]
  ELSE IF type = kJp2BoxTypeUuid
    THEN LET u == ReadUuid(f, im, length, position) IN
         [img |-> u.img,
          rd  |-> IF u.err # "none" THEN Thrown(rd1, u.err) ELSE MoveToNextBox(rd1)]
  ELSE [img |-> im, rd |-> MoveToNextBox(rd1)]

\* The colour sub-box: the ICC profile, or the error thrown.
ColrDataLength(subLength) == subLength + 8

ReadColr(f, im, subLength, tell) ==
  LET pad == 3
      data_length == ColrDataLength(subLength)
      data == IoRead(f, tell, data_length)
      iccLength == getLong(data, pad)
  IN
  IF data_length > Len(f) - tell THEN [img |-> im, err |-> "kerCorruptedMetadata"]
  ELSE IF iccLength > Len(data) - pad THEN [img |-> im, err |-> "kerCorruptedMetadata"]
  ELSE [img |-> [im EXCEPT !.iccProfile = Slice(data, pad, iccLength)], err |-> "none"]

\* The bytes a value of the little-endian host has in memory.
HostBytes(v) == << v % 256, (v \div 256) % 256, (v \div 65536) % 256, (v \div 16777216) % 256 >>

\* The image header sub-box: io_->read over the local (a short read leaves
\* the rest of the local as it was), then the in-place conversions.
ReadIhdr(f, im, rd, tell) ==
  LET got == Slice(IoRead(f, tell, SizeofIhdr), 0, 8)
      mem == got \o Slice(rd.ihdr, Len(got), 8 - Len(got))
      height == getLong(mem, 0)
      width == getLong(mem, 4)
  IN [img |-> [im EXCEPT !.pixelWidth = width, !.pixelHeight = height],
      ihdr |-> HostBytes(height) \o HostBytes(width)]

\* One iteration of the sub-box loop of case kJp2BoxTypeJp2Header.
ReadSubBox(f, im, rd) ==
  LET hdr == IoRead(f, rd.pos, SizeofBox)
      tell == rd.pos + SizeofBox
      length == getLong(hdr, 0)
      type == getLong(hdr, 4)
      rd1 == [rd EXCEPT !.boxes = rd.boxes + 1, !.pos = tell]
      isColr == type = kJp2BoxTypeColorHeader /\ length # 15
      c == IF isColr THEN ReadColr(f, im, length, tell) ELSE [img |-> im, err |-> "none"]
      h == IF type = kJp2BoxTypeImageHeader THEN ReadIhdr(f, c.img, rd, tell)
           ELSE [img |-> c.img, ihdr |-> rd.ihdr]
  IN
  IF Len(hdr) # SizeofBox \/ Slice(hdr, 0, 4) = <<0,0,0,0>>
    THEN [img |-> im, rd |-> MoveToNextBox(rd)]
  ELSE IF boxes_check(rd.boxes, boxem) THEN [img |-> im, rd |-> Thrown(rd1, "kerCorruptedMetadata")]
  ELSE IF length > Len(f) THEN [img |-> im, rd |-> Thrown(rd1, "kerCorruptedMetadata")]
  ELSE IF c.err # "none" THEN [img |-> im, rd |-> Thrown(rd1, c.err)]
  ELSE IF IoSeekFails(rd.restore + length)
    THEN [img |-> h.img, rd |-> Thrown(rd1, "kerCorruptedMetadata")]
  ELSE [img |-> h.img,
        rd  |-> [rd1 EXCEPT !.pos = rd.restore + length, !.restore = rd.restore + length,
                            !.ihdr = h.ihdr]]

\* One step of readMetadata, and the whole call.
ReadStep(f, im, rd) ==
  IF rd.pc = "box" THEN ReadBox(f, im, rd) ELSE ReadSubBox(f, im, rd)

RECURSIVE ReadLoop(_, _, _)
ReadLoop(f, im, rd) ==
  IF rd.pc = "done" THEN [img |-> im, rd |-> rd]
  ELSE LET s == ReadStep(f, im, rd) IN ReadLoop(f, s.img, s.rd)

ReadRun(f, im) == LET b == ReadBegin(f, im) IN ReadLoop(f, b.img, b.rd)

(***************************************************************************)
(* Jp2Image::printStructure(out, option, depth), for the options that      *)
(* write bytes of the file to out: kpsIccProfile and kpsXMP, and for        *)
(* kpsIptcErase and kpsNone, which write nothing.  The locals of the call:  *)
(*   pos        io_->tell()                                                 *)
(*   boxLength, boxType   box.length and box.type, as the last iteration    *)
(*              left them ({1,1} at the start)                              *)
(*   o          the bytes written to out so far                             *)
(***************************************************************************)
PrintOptions == {"kpsNone", "kpsIccProfile", "kpsXMP", "kpsIptcErase"}

\* The sub-box loop of case kJp2BoxTypeJp2Header; limit is
\* position + box.length.
RECURSIVE PrintSubBoxes(_, _, _, _, _)
PrintSubBoxes(f, option, limit, pos, o) ==
  LET hdr == IoRead(f, pos, SizeofBox)
      tell == pos + SizeofBox
      subLength == getLong(hdr, 0)
      subType == getLong(hdr, 4)
      data == IoRead(f, tell, subLength - SizeofBox)
      pad == 3
      iccLength == getLong(data, pad)
  IN
  IF Len(hdr) # SizeofBox \/ ~(tell < limit) THEN [err |-> "none", out |-> o]
  ELSE IF subLength < SizeofBox \/ subLength > Len(f) - tell
    THEN [err |-> "kerCorruptedMetadata", out |-> o]
  ELSE IF subType = kJp2BoxTypeColorHeader
    THEN IF ~(Len(data) >= pad + 4) THEN [err |-> "kerCorruptedMetadata", out |-> o]
         ELSE IF ~(iccLength <= Len(data) - pad) THEN [err |-> "kerCorruptedMetadata", out |-> o]
         ELSE PrintSubBoxes(f, option, limit, tell + Len(data),
                IF option = "kpsIccProfile" THEN o \o Slice(data, pad, iccLength) ELSE o)
  ELSE PrintSubBoxes(f, option, limit, tell + Len(data), o)

\* case kJp2BoxTypeUuid.
PrintUuid(f, option, length, position, o) ==
  LET uuid == IoRead(f, position, SizeofUuid)
      rawData == IoRead(f, position + SizeofUuid, length - SizeofUuid - SizeofBox)
  IN
  IF Len(uuid) # SizeofUuid THEN [err |-> "none", out |-> o]
  ELSE IF ~(length >= SizeofUuid + SizeofBox) THEN [err |-> "kerCorruptedMetadata", out |-> o]
  ELSE IF Len(rawData) # length - SizeofUuid - SizeofBox
    THEN [err |-> "kerInputDataReadFailed", out |-> o]
  ELSE IF uuid = kJp2UuidXmp /\ option = "kpsXMP" THEN [err |-> "none", out |-> o \o rawData]
  ELSE [err |-> "none", out |-> o]

\* The top-level loop.
RECURSIVE PrintBoxes(_, _, _, _, _, _)
PrintBoxes(f, option, pos, boxLength, boxType, o) ==
  LET hdr == IoRead(f, pos, SizeofBox)
      position == pos + SizeofBox
      length == getLong(hdr, 0)
      type == getLong(hdr, 4)
      s == IF type = kJp2BoxTypeJp2Header
             THEN PrintSubBoxes(f, option, position + length, position, o)
           ELSE IF type = kJp2BoxTypeUuid THEN PrintUuid(f, option, length, position, o)
           ELSE [err |-> "none", out |-> o]
  IN
  IF boxLength = 0 \/ boxType = kJp2BoxTypeClose \/ Len(hdr) # SizeofBox
    THEN [err |-> "none", out |-> o]
  ELSE IF ~BoxLengthFits(length, Len(f), position) THEN [err |-> "kerCorruptedMetadata", out |-> o]
  ELSE IF type = kJp2BoxTypeClose THEN [err |-> "none", out |-> o]
  ELSE IF s.err # "none" THEN s
  ELSE PrintBoxes(f, option, NextBoxPos(position, length), length, type, s.out)

printStructure(f, option) ==
  LET t == isJp2Type(f) IN
  IF t = "short" THEN [err |-> "kerFailedToReadImageData", out |-> << >>]
  ELSE IF t = "other" THEN [err |-> "kerNotAJpeg", out |-> << >>]
  ELSE IF option = "kpsNone" THEN [err |-> "none", out |-> << >>]
  ELSE PrintBoxes(f, option, 0, 1, 1, << >>)

(***************************************************************************)
(* Jp2Image::encodeJp2Header(boxBuf, outBuf).  The locals of its loop:     *)
(*   count, inlen, outlen, bWroteColor, and output[0 .. outlen).           *)
(***************************************************************************)
ColrPlaceholderPad == <<1,0,0,0,0,0,16,0,0,5,28,117,117,105,100>>
ColrIccPad == <<2,0,0>>

\* The length field written for the colour box when no profile is held.
ColrPlaceholderLength(psize) == psize

\* The new colour sub-box and its newlen.
EncodeColr(icc, type) ==
  IF Len(icc) = 0
    THEN LET psize == 15 IN
         [ newlen |-> SizeofBox + psize,
           bytes  |-> ul2Data(ColrPlaceholderLength(psize)) \o ul2Data(type) \o ColrPlaceholderPad ]
  ELSE LET psize == 3
           newlen == SizeofBox + psize + Len(icc) IN
       [ newlen |-> newlen,
         bytes  |-> ul2Data(newlen) \o ul2Data(type) \o ColrIccPad \o icc ]

\* The loop's exit condition.
EncodeContinues(count, length, bWroteColor) == count < length /\ ~bWroteColor

RECURSIVE EncodeLoop(_, _, _, _, _)
EncodeLoop(boxBuf, icc, length, outputSize, st) ==
  IF ~EncodeContinues(st.count, length, st.bWroteColor) THEN st
  ELSE IF ~(SizeofBox <= length - st.count) THEN [st EXCEPT !.err = "kerCorruptedMetadata"]
  ELSE
    LET subLength == getLong(boxBuf, st.count)
        subType == getLong(boxBuf, st.count + 4)
        isColr == subType = kJp2BoxTypeColorHeader
        colr == EncodeColr(icc, subType)
        newlen == IF isColr THEN colr.newlen ELSE subLength
        bytes == IF isColr THEN colr.bytes ELSE Slice(boxBuf, st.inlen, subLength)
    IN
    IF ~(subLength > 0) THEN [st EXCEPT !.err = "kerCorruptedMetadata"]
    ELSE IF ~(subLength <= length - st.count) THEN [st EXCEPT !.err = "kerCorruptedMetadata"]
    ELSE IF ~(newlen <= outputSize - st.outlen) THEN [st EXCEPT !.err = "kerCorruptedMetadata"]
    ELSE EncodeLoop(boxBuf, icc, length, outputSize,
           [ err |-> "none", count |-> st.count + subLength, inlen |-> st.inlen + subLength,
             outlen |-> st.outlen + newlen, bWroteColor |-> isColr,
             output |-> st.output \o bytes ])

encodeJp2Header(boxBuf, icc) ==
  LET outputSize == Len(boxBuf) + Len(icc) + 100
      length == getLong(boxBuf, 0)
      st0 == [ err |-> "none", count |-> SizeofBox, inlen |-> SizeofBox, outlen |-> SizeofBox,
               bWroteColor |-> FALSE, output |-> << >> ]
      st == IF length <= outputSize THEN EncodeLoop(boxBuf, icc, length, outputSize, st0)
            ELSE [st0 EXCEPT !.err = "kerCorruptedMetadata"]
  IN [ err |-> st.err,
       outBuf |-> ul2Data(st.outlen) \o ul2Data(kJp2BoxTypeJp2Header) \o st.output ]

(***************************************************************************)
(* Jp2Image::doWriteMetadata(outIo) and Jp2Image::writeMetadata.  The      *)
(* locals of the call:                                                     *)
(*   pc    "box" (the loop), "transfer" (doWriteMetadata has returned),    *)
(*         "done"                                                          *)
(*   err   "none", or the error kind thrown                                *)
(*   pos   io_->tell()                                                     *)
(*   out   the bytes written to outIo (tempIo) so far                      *)
(***************************************************************************)
WriteLocals0 == [ pc |-> "box", err |-> "none", pos |-> 0, out |-> << >> ]

\* A fresh uuid box: length, type, the 16-byte identifier, the payload.
UuidBoxData(id, raw) ==
  ul2Data(8 + 16 + Len(raw)) \o ul2Data(kJp2BoxTypeUuid) \o id \o raw

\* "Write all updated metadata here, just after JP2Header": the Exif, IPTC
\* and XMP boxes, and the packet the image holds afterwards.
ExifBox(im) ==
  IF Len(im.exifData) > 0 /\ ExifEncode(im.exifData) # << >>
    THEN UuidBoxData(kJp2UuidExif, ExifEncode(im.exifData)) ELSE << >>

IptcBox(im) ==
  IF Len(im.iptcData) > 0 /\ Len(IptcEncode(im.iptcData)) > 0
    THEN UuidBoxData(kJp2UuidIptc, IptcEncode(im.iptcData)) ELSE << >>

XmpPacketToWrite(im) ==
  IF ~im.writeXmpFromPacket THEN XmpEncode(im.xmpData) ELSE im.xmpPacket

XmpBox(packet) ==
  IF packet # << >> THEN UuidBoxData(kJp2UuidXmp, packet) ELSE << >>

\* A writer that emits the IPTC box before the Exif box.
MetadataBoxesIptcFirst(im) == IptcBox(im) \o ExifBox(im) \o XmpBox(XmpPacketToWrite(im))

MetadataBoxes(im) == ExifBox(im) \o IptcBox(im) \o XmpBox(XmpPacketToWrite(im))

\* A writer that copies the XMP uuid boxes of its input.
IsMetadataUuidKeepsXmp(boxBuf) ==
  \/ cmpBytes(boxBuf, 8, kJp2UuidExif)
  \/ cmpBytes(boxBuf, 8, kJp2UuidIptc)

\* A writer that copies the IPTC uuid boxes of its input.
IsMetadataUuidKeepsIptc(boxBuf) ==
  \/ cmpBytes(boxBuf, 8, kJp2UuidExif)
  \/ cmpBytes(boxBuf, 8, kJp2UuidXmp)

\* case kJp2BoxTypeUuid of doWriteMetadata: whether the box is stripped.
IsMetadataUuid(boxBuf) ==
  \/ cmpBytes(boxBuf, 8, kJp2UuidExif)
  \/ cmpBytes(boxBuf, 8, kJp2UuidIptc)
  \/ cmpBytes(boxBuf, 8, kJp2UuidXmp)

\* doWriteMetadata up to its loop: the type check and the signature.
WriteBegin(f, im) ==
  LET t == isJp2Type(f) IN
  [ img |-> im,
    wr  |-> IF t = "short" THEN [WriteLocals0 EXCEPT !.pc = "done", !.err = "kerInputDataReadFailed"]
            ELSE IF t = "other" THEN [WriteLocals0 EXCEPT !.pc = "done", !.err = "kerNoImageInInputData"]
            ELSE [WriteLocals0 EXCEPT !.pos = 12, !.out = Jp2Signature] ]

\* The box length the writer works with: a zero length runs to the end.
WriteBoxLength(raw, size, tell) == IF raw = 0 THEN size - tell + 8 ELSE raw

\* A writer that copies a box without its last byte.
PassThroughTruncated(boxBuf) == Slice(boxBuf, 0, Len(boxBuf) - 1)

\* outIo.write(boxBuf.c_data(), boxBuf.size()): the box as it was read.
PassThrough(boxBuf) == boxBuf

\* A writer that is back at the header of the box it has just read.
TellAfterReadSeeksBack(tell, bufRead) == tell - SizeofBox

\* io_->tell() after io_->read of the box data from tell.
TellAfterRead(tell, bufRead) == tell + bufRead

\* One iteration of the loop of doWriteMetadata (or its exit).
WriteBox(f, im, wr) ==
  LET hdr == IoRead(f, wr.pos, 8)
      tell == wr.pos + 8
      length == WriteBoxLength(getLong(hdr, 0), Len(f), tell)
      type == getLong(hdr, 4)
      data == IoRead(f, tell, length - 8)
      boxBuf == hdr \o data
      wr1 == [wr EXCEPT !.pos = TellAfterRead(tell, Len(data))]
      fail(e) == [img |-> im, wr |-> [wr1 EXCEPT !.pc = "done", !.err = e]]
      enc == encodeJp2Header(boxBuf, im.iccProfile)
  IN
  IF ~(wr.pos < Len(f)) THEN [img |-> im, wr |-> [wr EXCEPT !.pc = "transfer"]]
  ELSE IF Len(hdr) # 8 THEN [img |-> im, wr |-> [wr EXCEPT !.pc = "done", !.err = "kerInputDataReadFailed"]]
  ELSE IF length < 8 THEN fail("kerCorruptedMetadata")
  ELSE IF ~(length - 8 <= Len(f) - tell) THEN fail("kerCorruptedMetadata")
  ELSE IF Len(data) # length - 8 THEN fail("kerInputDataReadFailed")
  ELSE IF type = kJp2BoxTypeJp2Header
    THEN IF enc.err # "none" THEN fail(enc.err)
         ELSE [ img |-> [im EXCEPT !.xmpPacket = XmpPacketToWrite(im)],
                wr  |-> [wr1 EXCEPT !.out = wr.out \o enc.outBuf \o MetadataBoxes(im)] ]
  ELSE IF type = kJp2BoxTypeUuid
    THEN IF ~(Len(boxBuf) >= 24) THEN fail("kerCorruptedMetadata")
         ELSE IF IsMetadataUuid(boxBuf) THEN [img |-> im, wr |-> wr1]
         ELSE [img |-> im, wr |-> [wr1 EXCEPT !.out = wr.out \o PassThrough(boxBuf)]]
  ELSE [img |-> im, wr |-> [wr1 EXCEPT !.out = wr.out \o PassThrough(boxBuf)]]

\* doWriteMetadata as a whole: the staged output, or the error.
RECURSIVE WriteLoop(_, _, _)
WriteLoop(f, im, wr) ==
  IF wr.pc # "box" THEN [img |-> im, wr |-> wr]
  ELSE LET s == WriteBox(f, im, wr) IN WriteLoop(f, s.img, s.wr)

WriteRun(f, im) == LET b == WriteBegin(f, im) IN WriteLoop(f, b.img, b.wr)

(***************************************************************************)
(* The input files.  A file is the signature followed by up to MaxBoxes    *)
(* pieces of Pool: well-formed boxes of every recognised kind, and boxes   *)
(* whose length field breaks the box grammar.                              *)
(***************************************************************************)
MaxBoxes == 2

\* A box as it lies in a file: the length field, the type, the payload.
RawBox(length, type, payload) == ul2Data(length) \o ul2Data(type) \o payload

\* A box whose length field is the number of bytes it occupies.
WellBox(type, payload) == RawBox(SizeofBox + Len(payload), type, payload)

TypeFtyp == 1718909296 \* 0x66747970 'ftyp' (JP2_FTYP)
\* 'free', a box type the source does not know
TypeFree == getLong(<<102,114,101,101>>, 0)

IccP5 == <<0,0,0,5,9>>
IccP4 == <<0,0,0,4>>

SubIhdr == WellBox(kJp2BoxTypeImageHeader, <<0,0,0,2,0,0,0,3,0,1,7,7,0,0>>)
SubColrEnum == WellBox(kJp2BoxTypeColorHeader, <<1,0,0,0,0,0,17>>)
SubColrIcc == WellBox(kJp2BoxTypeColorHeader, ColrIccPad \o IccP5)
SubColrBadIcc == WellBox(kJp2BoxTypeColorHeader, ColrIccPad \o <<255,255,255,255,0>>)

BoxFtyp == WellBox(TypeFtyp, <<106,112,50,32>>)
BoxJp2hEnum == WellBox(kJp2BoxTypeJp2Header, SubIhdr \o SubColrEnum)
BoxJp2hIcc == WellBox(kJp2BoxTypeJp2Header, SubIhdr \o SubColrIcc)
BoxJp2hColrFirst == WellBox(kJp2BoxTypeJp2Header, SubColrIcc \o SubIhdr)
BoxJp2hNoColr == WellBox(kJp2BoxTypeJp2Header, SubIhdr)
BoxJp2hBadIcc == WellBox(kJp2BoxTypeJp2Header, SubColrBadIcc)
BoxUuidExif == WellBox(kJp2BoxTypeUuid, kJp2UuidExif \o ExifEncode(<<7>>))
BoxUuidIptc == WellBox(kJp2BoxTypeUuid, kJp2UuidIptc \o IptcEncode(<<5>>))
BoxUuidXmp == WellBox(kJp2BoxTypeUuid, kJp2UuidXmp \o <<32,32,60,97,62>>)
BoxUuidXmpBad == WellBox(kJp2BoxTypeUuid, kJp2UuidXmp \o <<60,97>>)
BoxUuidOther == WellBox(kJp2BoxTypeUuid, <<1,1,1,1,1,1,1,1,1,1,1,1,1,1,1,1,2,3>>)
BoxUuidShort == WellBox(kJp2BoxTypeUuid, <<1,1,1,1,1,1,1,1>>)
BoxJp2c == WellBox(kJp2BoxTypeClose, <<255,79,255,217>>)
BoxLength1 == RawBox(1, TypeFree, << >>)
BoxLength4 == RawBox(4, TypeFree, << >>)
BoxLength0 == RawBox(0, kJp2BoxTypeClose, <<255,79>>)
BoxOverlong == RawBox(200, TypeFree, <<1,2>>)
Junk3 == <<0,0,0>>

Pool ==
  { BoxFtyp, BoxJp2hEnum, BoxJp2hIcc, BoxJp2hColrFirst, BoxJp2hNoColr, BoxJp2hBadIcc,
    BoxUuidExif, BoxUuidIptc, BoxUuidXmp, BoxUuidXmpBad, BoxUuidOther, BoxUuidShort,
    BoxJp2c,
    BoxLength1, BoxLength4, BoxLength0, BoxOverlong, Junk3 }

RECURSIVE Bodies(_)
Bodies(n) ==
  IF n = 0 THEN { << >> }
  ELSE Bodies(n - 1) \cup { b \o p : b \in Bodies(n - 1), p \in Pool }

BadSignature == <<0,0,0,12,106,80,32,32,13,10,135,11>>

\* Two files of the usual layout: every kind of metadata box between the
\* header and the codestream; and a codestream that runs to the end.
FileTypical ==
  Jp2Signature \o BoxFtyp \o BoxJp2hIcc \o BoxUuidExif \o BoxUuidIptc \o BoxUuidXmp
    \o BoxUuidOther \o BoxJp2c

FileTail0 == Jp2Signature \o BoxFtyp \o BoxJp2hEnum \o BoxUuidXmp \o BoxLength0

\* A last box that declares one byte more than the stream holds.
FileOverBy1 == Jp2Signature \o BoxFtyp \o RawBox(11, TypeFree, <<1,2>>)

\* A colour sub-box that declares one profile byte more than it holds.
SubColrOverIcc == WellBox(kJp2BoxTypeColorHeader, ColrIccPad \o <<0,0,0,6,9>>)
\* A colour sub-box too small to hold the pad and the profile length.
SubColrTiny == WellBox(kJp2BoxTypeColorHeader, <<2,0,0,0>>)
BoxJp2hOverIcc == WellBox(kJp2BoxTypeJp2Header, SubIhdr \o SubColrOverIcc)
BoxJp2hTinyColr == WellBox(kJp2BoxTypeJp2Header, SubIhdr \o SubColrTiny)
FileOverIcc == Jp2Signature \o BoxFtyp \o BoxJp2hOverIcc \o BoxUuidExif \o BoxJp2c
FileTinyColr == Jp2Signature \o BoxFtyp \o BoxJp2hTinyColr \o BoxUuidExif \o BoxJp2c

\* XMP boxes whose packet holds no '<', and two of them after a blank.
BoxUuidXmpNoLt == WellBox(kJp2BoxTypeUuid, kJp2UuidXmp \o <<32,97>>)
BoxUuidXmpTwoLt == WellBox(kJp2BoxTypeUuid, kJp2UuidXmp \o <<32,60,97,60,62>>)
FileXmpNoLt == Jp2Signature \o BoxFtyp \o BoxUuidXmpNoLt \o BoxJp2c
FileXmpTwoLt == Jp2Signature \o BoxFtyp \o BoxUuidXmpTwoLt \o BoxJp2c

\* Metadata boxes the parsers fail on: a TIFF stream with a broken header,
\* an IPTC record without its marker.  Each is followed by a good box.
BoxUuidExifBad == WellBox(kJp2BoxTypeUuid, kJp2UuidExif \o <<73,73,1,2,3,4,5,6,7>>)
BoxUuidIptcBad == WellBox(kJp2BoxTypeUuid, kJp2UuidIptc \o <<5>>)
FileExifBad == Jp2Signature \o BoxFtyp \o BoxUuidExifBad \o BoxUuidIptc \o BoxJp2c
FileIptcBad == Jp2Signature \o BoxFtyp \o BoxUuidIptcBad \o BoxUuidExif \o BoxJp2c
FileXmpBad == Jp2Signature \o BoxFtyp \o BoxUuidXmpBad \o BoxUuidExif \o BoxJp2c

\* Exif boxes without a byte-order mark: one without the "Exif\0\0" marker,
\* one with the marker before the TIFF stream.
BoxUuidExifNoHeader == WellBox(kJp2BoxTypeUuid, kJp2UuidExif \o <<1,2,3,4,5,6,7,8,9>>)
BoxUuidExifMarked ==
  WellBox(kJp2BoxTypeUuid, kJp2UuidExif \o <<1,69,120,105,102,0,0>> \o ExifEncode(<<7>>))
FileExifNoHeader == Jp2Signature \o BoxFtyp \o BoxUuidExifNoHeader \o BoxJp2c
FileExifMarked == Jp2Signature \o BoxFtyp \o BoxUuidExifMarked \o BoxJp2c

Files ==
  { Jp2Signature \o b : b \in Bodies(MaxBoxes) }
    \cup { Jp2Blank, FileTypical, FileTail0, FileOverBy1, FileOverIcc, FileTinyColr,
           FileXmpNoLt, FileXmpTwoLt, FileExifBad, FileIptcBad, FileXmpBad,
           FileExifNoHeader, FileExifMarked,
           BadSignature \o BoxFtyp, Slice(Jp2Signature, 0, 11) }

\* What the caller may set.
ExifValues == { <<7>> }
IptcValues == { <<5>> }
XmpValues == { <<97>> }
XmpPackets == { <<60,98,62>> }
IccValues == { IccP5, IccP4 }

\* How many setter calls and how many writes a run makes.
MaxSets == 1
MaxWrites == 1

(***************************************************************************)
(* The state.                                                              *)
(*   io      the bytes of the image's backing store                        *)
(*   img     the image's metadata                                          *)
(*   pc      "idle", or the call in progress: "read", "write"              *)
(*   rd, wr  the locals of readMetadata and of doWriteMetadata             *)
(*   last    the last call that ended and how: op ("read", "write", "set") *)
(*           and err                                                       *)
(*   src     the backing store when the last writeMetadata began           *)
(*   readOk  img is as the last readMetadata left it, and that succeeded   *)
(*   nSets, nWrites   setter calls and writes so far                       *)
(***************************************************************************)
VARIABLES io, img, pc, rd, wr, last, src, readOk, nSets, nWrites

vars == <<io, img, pc, rd, wr, last, src, readOk, nSets, nWrites>>

Init ==
  /\ io \in Files
  /\ img = EmptyImage
  /\ pc = "idle"
  /\ rd = ReadLocals0
  /\ wr = WriteLocals0
  /\ last = [op |-> "none", err |-> "none"]
  /\ src = io
  /\ readOk = FALSE
  /\ nSets = 0
  /\ nWrites = 0

\* A step of readMetadata has been taken: the call goes on or has ended.
ReadAdvance(s) ==
  /\ img' = s.img
  /\ rd' = s.rd
  /\ pc' = IF s.rd.pc = "done" THEN "idle" ELSE "read"
  /\ last' = IF s.rd.pc = "done" THEN [op |-> "read", err |-> s.rd.err] ELSE last
  /\ readOk' = (s.rd.pc = "done" /\ s.rd.err = "none")
  /\ UNCHANGED <<io, wr, src, nSets, nWrites>>

ReadMetadataBegin ==
  /\ pc = "idle"
  /\ ReadAdvance(ReadBegin(io, img))

ReadMetadataBox ==
  /\ pc = "read"
  /\ rd.pc = "box"
  /\ ReadAdvance(ReadBox(io, img, rd))

ReadMetadataSubBox ==
  /\ pc = "read"
  /\ rd.pc = "sub"
  /\ ReadAdvance(ReadSubBox(io, img, rd))

\* A writer that writes each box straight to the backing store.
StagingStoreWritesThrough(f, out) == out

\* While doWriteMetadata stages its output in tempIo the backing store of io_
\* is not written.
StagingStore(f, out) == f

\* A step of doWriteMetadata has been taken.
WriteAdvance(s) ==
  /\ img' = s.img
  /\ wr' = s.wr
  /\ io' = StagingStore(io, s.wr.out)
  /\ pc' = IF s.wr.pc = "done" THEN "idle" ELSE "write"
  /\ last' = IF s.wr.pc = "done" THEN [op |-> "write", err |-> s.wr.err] ELSE last
  /\ UNCHANGED <<rd, readOk, nSets>>

\* printStructure(out, option): the file and the image stay as they are.
PrintStructure ==
  /\ pc = "idle"
  /\ \E option \in PrintOptions :
       LET p == printStructure(io, option) IN
       last' = [op |-> "print", err |-> p.err, option |-> option, out |-> p.out]
  /\ UNCHANGED <<io, img, pc, rd, wr, src, readOk, nSets, nWrites>>

WriteMetadataBegin ==
  /\ pc = "idle"
  /\ nWrites < MaxWrites
  /\ nWrites' = nWrites + 1
  /\ src' = io
  /\ WriteAdvance(WriteBegin(io, img))

WriteMetadataBox ==
  /\ pc = "write"
  /\ wr.pc = "box"
  /\ WriteAdvance(WriteBox(io, img, wr))
  /\ UNCHANGED <<src, nWrites>>

\* io_->close(); io_->transfer(*tempIo)
WriteMetadataTransfer ==
  /\ pc = "write"
  /\ wr.pc = "transfer"
  /\ io' = wr.out
  /\ wr' = [wr EXCEPT !.pc = "done"]
  /\ pc' = "idle"
  /\ last' = [op |-> "write", err |-> "none"]
  /\ UNCHANGED <<img, rd, src, readOk, nSets, nWrites>>

\* The caller's setters (Image::setExifData, setIptcData, setXmpData,
\* setXmpPacket, writeXmpFromPacket, setIccProfile, clearMetadata).
Set(im) ==
  /\ pc = "idle"
  /\ nSets < MaxSets
  /\ nSets' = nSets + 1
  /\ img' = im
  /\ readOk' = FALSE
  /\ last' = [op |-> "set", err |-> "none"]
  /\ UNCHANGED <<io, pc, rd, wr, src, nWrites>>

SetExifData == \E d \in ExifValues : Set([img EXCEPT !.exifData = d])

SetIptcData == \E d \in IptcValues : Set([img EXCEPT !.iptcData = d])

SetXmpData == \E d \in XmpValues : Set([img EXCEPT !.xmpData = d])

SetXmpPacket ==
  \E p \in XmpPackets : Set([img EXCEPT !.xmpPacket = p, !.xmpData = XmpDecode(p).xmp])

SetWriteXmpFromPacket == Set([img EXCEPT !.writeXmpFromPacket = TRUE])

SetIccProfile == \E p \in IccValues : Set([img EXCEPT !.iccProfile = p])

ClearMetadata ==
  Set([img EXCEPT !.exifData = << >>, !.iptcData = << >>, !.xmpData = << >>,
                  !.xmpPacket = << >>, !.iccProfile = << >>])

Next ==
  \/ ReadMetadataBegin
  \/ ReadMetadataBox
  \/ ReadMetadataSubBox
  \/ WriteMetadataBegin
  \/ WriteMetadataBox
  \/ WriteMetadataTransfer
  \/ SetExifData
  \/ SetIptcData
  \/ SetXmpData
  \/ SetXmpPacket
  \/ SetWriteXmpFromPacket
  \/ SetIccProfile
  \/ ClearMetadata

Spec == Init /\ [][Next]_vars

\* The reader alone: a caller that only ever calls readMetadata, over every
\* input file.  Once called, readMetadata runs its loops to the end of the
\* call (it is sequential code that nothing preempts for ever), which is weak
\* fairness of its two loop steps; the caller is free never to call it.
ReadNext ==
  \/ ReadMetadataBegin
  \/ ReadMetadataBox
  \/ ReadMetadataSubBox

FairSpec ==
  Init /\ [][ReadNext]_vars /\ WF_vars(ReadMetadataBox) /\ WF_vars(ReadMetadataSubBox)

(***************************************************************************)
(* The box grammar of specification 3, read off a file independently of    *)
(* the reader and the writer.                                              *)
(***************************************************************************)
SignatureOK(f) == Len(f) >= 12 /\ Slice(f, 0, 12) = Jp2Signature

\* The boxes from offset off tile the file to its end: a length of 0 only
\* for the final box, never 1, else at least 8 and at most the bytes left.
RECURSIVE GrammarOK(_, _)
GrammarOK(f, off) ==
  IF off = Len(f) THEN TRUE
  ELSE IF Len(f) - off < SizeofBox THEN FALSE
  ELSE LET length == getLong(f, off) IN
       IF length = 0 THEN TRUE
       ELSE IF length < SizeofBox \/ length > Len(f) - off THEN FALSE
       ELSE GrammarOK(f, off + length)

\* The top-level boxes from offset off, each as its bytes, as far as the
\* grammar holds.
RECURSIVE BoxesFrom(_, _)
BoxesFrom(f, off) ==
  IF Len(f) - off < SizeofBox THEN << >>
  ELSE LET length == getLong(f, off) IN
       IF length = 0 THEN << Slice(f, off, Len(f) - off) >>
       ELSE IF length < SizeofBox \/ length > Len(f) - off THEN << >>
       ELSE << Slice(f, off, length) >> \o BoxesFrom(f, off + length)

TopBoxes(f) == BoxesFrom(f, 12)

BoxType(b) == getLong(b, 4)

IsJp2h(b) == BoxType(b) = kJp2BoxTypeJp2Header

\* A uuid box carrying the identifier id.
IsUuidOf(b, id) == BoxType(b) = kJp2BoxTypeUuid /\ Slice(b, 8, 16) = id

IsRecognisedUuid(b) ==
  \E id \in {kJp2UuidExif, kJp2UuidIptc, kJp2UuidXmp} : IsUuidOf(b, id)

CountBoxes(bs, P(_)) == Cardinality({ i \in 1..Len(bs) : P(bs[i]) })

CountUuid(f, id) == LET Is(b) == IsUuidOf(b, id) IN CountBoxes(TopBoxes(f), Is)

\* The boxes that are neither jp2h nor a recognised uuid box, in order.
RECURSIVE Others(_)
Others(bs) ==
  IF bs = << >> THEN << >>
  ELSE IF IsJp2h(Head(bs)) \/ IsRecognisedUuid(Head(bs)) THEN Others(Tail(bs))
  ELSE << Head(bs) >> \o Others(Tail(bs))

\* Whether the payload of the jp2h box b holds a colr sub-box.
RECURSIVE HasColrFrom(_, _)
HasColrFrom(b, off) ==
  IF Len(b) - off < SizeofBox THEN FALSE
  ELSE LET length == getLong(b, off) IN
       IF getLong(b, off + 4) = kJp2BoxTypeColorHeader THEN TRUE
       ELSE IF length < SizeofBox \/ length > Len(b) - off THEN FALSE
       ELSE HasColrFrom(b, off + length)

HasJp2hWithColr(f) ==
  \E i \in 1..Len(TopBoxes(f)) : IsJp2h(TopBoxes(f)[i]) /\ HasColrFrom(TopBoxes(f)[i], 8)

\* What a round trip compares.
Metadata(im) ==
  << im.exifData, im.iptcData, im.xmpData, im.iccProfile, im.pixelWidth, im.pixelHeight >>

Collections(im) == << im.exifData, im.iptcData, im.xmpData >>

ReadDone == pc = "idle" /\ last.op = "read"
WriteDone == pc = "idle" /\ last.op = "write"
WriteOk == WriteDone /\ last.err = "none"

\* readMetadata by an image freshly opened on the file f.
Reread(f) == ReadRun(f, EmptyImage)

Accepted(f) == Reread(f).rd.err = "none"

(***************************************************************************)
(* The claims.                                                             *)
(***************************************************************************)

\* C1: readMetadata accepts a file if and only if its first 12 bytes are the
\* signature and its top-level boxes honour the box grammar (length 0 only
\* for the final box, length 1 rejected, else 8 <= length <= bytes left, the
\* boxes tiling the file to its end).
C1_AcceptsIffGrammar ==
  ReadDone => ((last.err = "none") <=> (SignatureOK(io) /\ GrammarOK(io, 12)))

\* C2: a file that readMetadata accepts, read and then written with no
\* metadata change in between, gives an output that readMetadata accepts and
\* from which it produces the same Exif, IPTC, XMP, ICC and pixel dimensions.
C2_RoundTrip ==
  (WriteOk /\ readOk /\ nWrites = 1 /\ nSets = 0
     /\ CountBoxes(TopBoxes(src), IsJp2h) = 1) =>
     (Accepted(io) /\ Metadata(Reread(io).img) = Metadata(img))

\* C3: for an accepted input (one that holds a jp2h box, as the blank template
\* does), after the caller sets a non-empty Exif, IPTC or XMP collection and
\* writes, readMetadata of the output succeeds and returns exactly the
\* collections that were set.
C3_SetThenReread ==
  (WriteOk /\ nWrites = 1 /\ Accepted(src) /\ CountBoxes(TopBoxes(src), IsJp2h) = 1
     /\ nSets > 0 /\ Collections(img) # << << >>, << >>, << >> >>) =>
     (Accepted(io) /\ Collections(Reread(io).img) = Collections(img))

\* C4: writeMetadata is idempotent: applied to its own output with the same
\* in-memory metadata, it succeeds and stages exactly that output again.
C4_WriteIdempotent ==
  WriteOk => LET w == WriteRun(io, img).wr IN
             w.pc = "transfer" /\ w.err = "none" /\ w.out = io

C4_Witness ==
  WriteOk /\ io # src /\ img.exifData # << >> /\ CountUuid(src, kJp2UuidXmp) > 0

\* C5: the output of a successful writeMetadata holds at most one top-level
\* uuid box with the Exif identifier, at most one with the IPTC identifier and
\* at most one with the XMP identifier, whatever boxes the input holds.
C5_AtMostOneEach ==
  WriteOk => \A id \in {kJp2UuidExif, kJp2UuidIptc, kJp2UuidXmp} : CountUuid(io, id) <= 1

\* The three datum collections are empty.
CollectionsEmpty(im) == Collections(im) = << << >>, << >>, << >> >>

\* No packet is held that the caller asked to be written as it is.
NoPacketToWrite(im) == im.writeXmpFromPacket => im.xmpPacket = << >>

\* The output is a well-formed box sequence without a recognised uuid box.
NoRecognisedUuid(f) ==
  /\ GrammarOK(f, 12)
  /\ \A id \in {kJp2UuidExif, kJp2UuidIptc, kJp2UuidXmp} : CountUuid(f, id) = 0

\* C6 as stated: when the Exif, IPTC and XMP collections are all empty at the
\* write, the output holds no top-level uuid box with a recognised identifier,
\* even when the input held such boxes.
C6_StrippingAsStated == (WriteOk /\ CollectionsEmpty(img)) => NoRecognisedUuid(io)

\* C6: when the Exif, IPTC and XMP collections are all empty at the write and
\* no XMP packet is held to be written as it is (writeXmpFromPacket), the
\* output holds no top-level uuid box with a recognised identifier, even when
\* the input held such boxes.
C6_Stripping ==
  (WriteOk /\ CollectionsEmpty(img) /\ NoPacketToWrite(img)) => NoRecognisedUuid(io)

C6_Witness ==
  /\ WriteOk /\ CollectionsEmpty(img) /\ NoPacketToWrite(img)
  /\ img.writeXmpFromPacket
  /\ CountUuid(src, kJp2UuidXmp) > 0
  /\ CountUuid(src, kJp2UuidExif) > 0
  /\ CountUuid(src, kJp2UuidIptc) > 0

\* The error kinds of specification 7 that a read may end in.
ReadErrorKinds ==
  { "kerDataSourceOpenFailed", "kerNotAnImage", "kerCorruptedMetadata",
    "kerFailedToReadImageData", "kerInputDataReadFailed" }

\* A step that stays in a loop of readMetadata moves on in the file, and
\* leaving the sub-box loop leaves the jp2h box behind.
ReadProgress ==
  (pc = "read" /\ pc' = "read") =>
     /\ (rd.pc = rd'.pc => rd'.pos > rd.pos)
     /\ (rd.pc = "sub" /\ rd'.pc = "box" => rd'.pos > rd.position - SizeofBox)

\* C7: on any input, readMetadata terminates, in success or in a recognised
\* error kind, and both of its loops make progress or stop.
C7_ReadTerminates ==
  /\ (pc = "read") ~> (ReadDone /\ last.err \in ReadErrorKinds \cup {"none"})
  /\ [][ReadProgress]_vars

C7_Witness ==
  /\ ReadDone /\ last.err = "kerCorruptedMetadata" /\ rd.boxes > 2
  /\ ~GrammarOK(io, 12)

\* C8: for every ICC profile set on the image, after writeMetadata to a file
\* whose jp2h box holds a colr sub-box, readMetadata of the output stores that
\* profile byte for byte.
C8_IccRoundTrip ==
  (WriteOk /\ nWrites = 1 /\ nSets > 0 /\ iccProfileDefined(img) /\ HasJp2hWithColr(src)) =>
     (Accepted(io) /\ Reread(io).img.iccProfile = img.iccProfile)

\* C9: when writeMetadata fails, the backing store is unchanged; the backing
\* store changes only in the transfer step, to the whole staged output.
C9_FailureLeavesInput ==
  /\ [](WriteDone /\ last.err # "none" => io = src)
  /\ [][io' # io => (pc = "write" /\ wr.pc = "transfer" /\ io' = wr.out)]_vars

C9_Witness ==
  WriteDone /\ last.err = "kerCorruptedMetadata" /\ Len(wr.out) > 12 /\ io = src

\* The fresh uuid boxes the image's metadata gives.
FreshBoxes(im) ==
  { b \in { ExifBox(im), IptcBox(im), XmpBox(im.xmpPacket) } : b # << >> }

\* C10: every top-level input box that is neither jp2h nor a recognised uuid
\* box is in the output byte for byte and in the same order, and every
\* recognised uuid box of the input is dropped: those of the output are the
\* fresh ones, one set per jp2h box.
C10_PassThrough ==
  WriteOk =>
    /\ Others(TopBoxes(io)) = Others(TopBoxes(src))
    /\ \A i \in 1..Len(TopBoxes(io)) :
         IsRecognisedUuid(TopBoxes(io)[i]) => TopBoxes(io)[i] \in FreshBoxes(img)
    /\ CountBoxes(TopBoxes(io), IsRecognisedUuid)
         = CountBoxes(TopBoxes(src), IsJp2h) * Cardinality(FreshBoxes(img))

C10_Witness ==
  /\ WriteOk
  /\ Len(Others(TopBoxes(src))) = 3
  /\ CountBoxes(TopBoxes(src), IsRecognisedUuid) > 0
  /\ CountBoxes(TopBoxes(io), IsRecognisedUuid) > 0

(***************************************************************************)
(* The fresh uuid boxes (specification 4.H).                               *)
(***************************************************************************)
\* A uuid box as specification 4.H lays it out, or nothing for no payload.
FreshUuid(id, payload) ==
  IF payload = << >> THEN << >>
  ELSE RawBox(8 + 16 + Len(payload), kJp2BoxTypeUuid, id \o payload)

\* The step of doWriteMetadata that is about to be taken handles a jp2h box.
AtJp2h ==
  /\ pc = "write" /\ wr.pc = "box"
  /\ Len(IoRead(io, wr.pos, SizeofBox)) = SizeofBox
  /\ getLong(io, wr.pos + 4) = kJp2BoxTypeJp2Header

\* What a step of doWriteMetadata has added to the staged output.
Appended == Slice(wr'.out, Len(wr.out), Len(wr'.out) - Len(wr.out))

\* The step has written one jp2h box whose length field is its size in
\* bytes, and directly after it exactly the bytes of fresh.
Jp2hThen(fresh) ==
  LET a == Appended
      l == getLong(a, 0) IN
  /\ Len(a) >= SizeofBox
  /\ getLong(a, 4) = kJp2BoxTypeJp2Header
  /\ l >= SizeofBox /\ l <= Len(a)
  /\ Slice(a, l, Len(a) - l) = fresh

\* C11 as stated: the step that rewrites a jp2h box writes, directly after
\* it, one fresh uuid box for each non-empty collection, in the order Exif,
\* IPTC, XMP, each of type uuid with the identifier and the encoded collection
\* as its body and the length field 8 + 16 + payload length.
C11_FreshBoxesAsStated ==
  [][(AtJp2h /\ wr'.pc = "box") =>
       Jp2hThen(FreshUuid(kJp2UuidExif, ExifEncode(img.exifData))
                  \o FreshUuid(kJp2UuidIptc, IptcEncode(img.iptcData))
                  \o FreshUuid(kJp2UuidXmp, XmpEncode(img.xmpData)))]_vars

\* C11: the step that rewrites a jp2h box writes, directly after it and before
\* any other box, the fresh uuid boxes in the order Exif, IPTC, XMP: one for
\* a non-empty Exif collection, one for a non-empty IPTC collection, and one
\* for a non-empty XMP packet, which is the packet held when
\* writeXmpFromPacket is on and the encoded XMP collection otherwise; each
\* has type uuid, the identifier followed by the payload as its body, and the
\* length field 8 + 16 + payload length.
C11_FreshBoxes ==
  [][(AtJp2h /\ wr'.pc = "box") =>
       Jp2hThen(FreshUuid(kJp2UuidExif, ExifEncode(img.exifData))
                  \o FreshUuid(kJp2UuidIptc, IptcEncode(img.iptcData))
                  \o FreshUuid(kJp2UuidXmp,
                       IF img.writeXmpFromPacket THEN img.xmpPacket
                       ELSE XmpEncode(img.xmpData)))]_vars

C11_Witness ==
  /\ WriteOk
  /\ img.exifData # << >> /\ img.iptcData # << >> /\ img.xmpData # << >>
  /\ CountBoxes(TopBoxes(io), IsRecognisedUuid) = 3
  /\ CountBoxes(TopBoxes(io), IsJp2h) = 1

(***************************************************************************)
(* The signature check (specification 7).                                  *)
(***************************************************************************)
\* What both calls do with a file f that fails the signature check.
RejectedAtSignature(f) ==
  /\ (ReadDone /\ io = f) => (last.err = "kerNotAnImage" /\ rd.boxes = 0)
  /\ (WriteDone /\ src = f) =>
       (last.err = "kerNoImageInInputData" /\ wr.out = << >> /\ io = src)

\* C12 as stated: an input whose first 12 bytes are not the JP2 signature is
\* rejected before any box is processed: readMetadata fails with
\* kerNotAnImage, writeMetadata fails with kerNoImageInInputData and writes
\* nothing.
C12_BadSignatureAsStated ==
  \A f \in {io, src} : ~SignatureOK(f) => RejectedAtSignature(f)

\* C12: an input of at least 12 bytes whose first 12 bytes are not the JP2
\* signature is rejected before any box is processed: readMetadata fails with
\* kerNotAnImage, writeMetadata fails with kerNoImageInInputData and writes
\* nothing.
C12_BadSignature ==
  \A f \in {io, src} : (Len(f) >= 12 /\ ~SignatureOK(f)) => RejectedAtSignature(f)

C12_Witness ==
  /\ WriteDone /\ last.err = "kerNoImageInInputData"
  /\ rd.pc = "done" /\ rd.err = "kerNotAnImage"
  /\ Len(io) > 12

(***************************************************************************)
(* The length checks of the box walker (specification 4.C).                *)
(***************************************************************************)
\* Walking the top-level boxes of f from off by their declared lengths: the
\* offset and the length of the first box whose length is neither 0 nor at
\* least 8 and within the file; <<-1, -1>> when the walk meets none.
RECURSIVE FirstBadBox(_, _)
FirstBadBox(f, off) ==
  IF Len(f) - off < SizeofBox THEN <<-1, -1>>
  ELSE LET length == getLong(f, off) IN
       IF length = 0 THEN <<-1, -1>>
       ELSE IF length < SizeofBox \/ length > Len(f) - off THEN <<off, length>>
       ELSE FirstBadBox(f, off + length)

\* f holds a top-level box whose declared length is 1.
HasLength1(f) == SignatureOK(f) /\ FirstBadBox(f, 12)[2] = 1

\* C13: readMetadata fails with kerCorruptedMetadata on a file that holds a
\* top-level box whose declared length is 1.
C13_Length1Rejected ==
  (ReadDone /\ HasLength1(io)) => last.err = "kerCorruptedMetadata"

\* The step of readMetadata that is about to be taken reads the header of a
\* top-level box.
AtBoxHeader ==
  pc = "read" /\ rd.pc = "box" /\ Len(IoRead(io, rd.pos, SizeofBox)) = SizeofBox

\* The bytes of the stream after the header at rd.pos.
AfterHeader == Len(io) - (rd.pos + SizeofBox)

\* C14: when readMetadata meets a top-level box whose declared length exceeds
\* 8 plus the bytes remaining after its 8-byte header, it fails with
\* kerCorruptedMetadata, having read the header only and with the image as it
\* was.
C14_OverlongRejected ==
  [][(AtBoxHeader /\ getLong(io, rd.pos) > SizeofBox + AfterHeader) =>
       /\ rd'.pc = "done" /\ rd'.err = "kerCorruptedMetadata"
       /\ rd'.pos = rd.pos + SizeofBox
       /\ img' = img]_vars

C14_Witness ==
  /\ ReadDone /\ last.err = "kerCorruptedMetadata"
  /\ rd.boxes = 2 /\ rd.pos = rd.position
  /\ rd.boxLength > SizeofBox + Len(io) - rd.position

(***************************************************************************)
(* The box budget (specification 4.C).  The reader alone, over files of    *)
(* empty 8-byte boxes around the budget: boxem, boxem + 1 and boxem + 2    *)
(* boxes, either all at the top level or one jp2h box that holds the       *)
(* others.                                                                 *)
(***************************************************************************)
EmptyBox == WellBox(TypeFree, << >>)

\* n empty boxes, one after the other.
EmptyBoxes(n) == [ i \in 1..(SizeofBox * n) |-> EmptyBox[((i - 1) % SizeofBox) + 1] ]

\* n boxes at the top level.
TopFile(n) == Jp2Signature \o EmptyBoxes(n)

\* n boxes: a jp2h box and the n - 1 sub-boxes it holds.
SubFile(n) ==
  Jp2Signature \o ul2Data(SizeofBox * n) \o ul2Data(kJp2BoxTypeJp2Header) \o EmptyBoxes(n - 1)

BudgetFiles ==
  { TopFile(n) : n \in boxem..(boxem + 2) } \cup { SubFile(n) : n \in boxem..(boxem + 2) }

BudgetInit ==
  /\ io \in BudgetFiles
  /\ img = EmptyImage
  /\ pc = "idle"
  /\ rd = ReadLocals0
  /\ wr = WriteLocals0
  /\ last = [op |-> "none", err |-> "none"]
  /\ src = io
  /\ readOk = FALSE
  /\ nSets = 0
  /\ nWrites = 0

\* At most n iterations of the loops of readMetadata, and at most n runs of
\* n iterations: the whole call when it ends within ChunkLen * ChunkLen
\* iterations, as it does on every file of BudgetFiles.
ChunkLen == 64

RECURSIVE ReadSteps(_, _, _, _)
ReadSteps(f, im, loc, n) ==
  IF n = 0 \/ loc.pc = "done" THEN [img |-> im, rd |-> loc]
  ELSE LET s == ReadStep(f, im, loc) IN ReadSteps(f, s.img, s.rd, n - 1)

RECURSIVE ReadChunks(_, _, _, _)
ReadChunks(f, im, loc, n) ==
  IF n = 0 \/ loc.pc = "done" THEN [img |-> im, rd |-> loc]
  ELSE LET s == ReadSteps(f, im, loc, ChunkLen) IN ReadChunks(f, s.img, s.rd, n - 1)

\* readMetadata run from the call to its return or throw in one step: the
\* call is sequential code, and nothing of the image is touched meanwhile.
ReadMetadataCall ==
  /\ pc = "idle"
  /\ ReadAdvance(LET b == ReadBegin(io, img) IN ReadChunks(io, b.img, b.rd, ChunkLen))

BudgetNext ==
  \/ ReadMetadataCall
  \/ ReadMetadataBegin
  \/ ReadMetadataBox
  \/ ReadMetadataSubBox

BudgetSpec == BudgetInit /\ [][BudgetNext]_vars

\* The boxes of a file of BudgetFiles.
NumBoxes(f) == (Len(f) - Len(Jp2Signature)) \div SizeofBox

\* C15: readMetadata visits at most boxem = 1000 boxes, top-level boxes and
\* jp2h sub-boxes counted together: a file of 1000 valid boxes is accepted
\* and a file of 1001 (or more) valid empty boxes fails with
\* kerCorruptedMetadata.
C15_BoxBudget ==
  ReadDone =>
    IF NumBoxes(io) <= boxem THEN last.err = "none"
    ELSE last.err = "kerCorruptedMetadata"

(***************************************************************************)
(* C16: the length checks on the colour sub-box.                           *)
(***************************************************************************)
\* The reader is at the header of a sub-box of jp2h that its loop enters.
AtSubBoxHeader ==
  /\ pc = "read" /\ rd.pc = "sub"
  /\ Len(IoRead(io, rd.pos, SizeofBox)) = SizeofBox
  /\ getLong(io, rd.pos) # 0

AtColr == AtSubBoxHeader /\ getLong(io, rd.pos + 4) = kJp2BoxTypeColorHeader

\* The declared length of the sub-box minus its header.
ColrPayloadSize == getLong(io, rd.pos) - SizeofBox

\* The payload cannot hold pad and profile length, or the profile length
\* read after the pad exceeds what the payload holds after the pad.
ColrInconsistent ==
  \/ ColrPayloadSize < 7
  \/ /\ Len(io) >= rd.pos + SizeofBox + 7
     /\ getLong(io, rd.pos + SizeofBox + 3) > ColrPayloadSize - 3

\* C16: when readMetadata meets a colr sub-box of jp2h whose payload is
\* smaller than 7 bytes, or whose profile length (the 32-bit value after the
\* 3-byte pad) is greater than the payload size minus 3, the call fails with
\* kerCorruptedMetadata.  Stated for the sub-boxes the source parses, those
\* of a declared length other than 15.
C16_ColrLengthChecked ==
  [][(AtColr /\ getLong(io, rd.pos) # 15 /\ ColrInconsistent)
       => (rd'.pc = "done" /\ rd'.err = "kerCorruptedMetadata")]_vars

(***************************************************************************)
(* C17: the XMP packet is stored from its first '<' on.                    *)
(***************************************************************************)
\* The reader is at the header of a top-level XMP uuid box that lies whole
\* in the stream.
AtXmpBox ==
  /\ AtBoxHeader
  /\ getLong(io, rd.pos + 4) = kJp2BoxTypeUuid
  /\ getLong(io, rd.pos) >= SizeofBox + SizeofUuid
  /\ getLong(io, rd.pos) <= SizeofBox + AfterHeader
  /\ Slice(io, rd.pos + SizeofBox, SizeofUuid) = kJp2UuidXmp

XmpPayload ==
  Slice(io, rd.pos + SizeofBox + SizeofUuid, getLong(io, rd.pos) - (SizeofBox + SizeofUuid))

\* The 0-based positions of '<' in a packet.
LtPositions(p) == { i \in 0..(Len(p) - 1) : p[i + 1] = 60 }

FirstLt(p) == CHOOSE k \in LtPositions(p) : \A j \in LtPositions(p) : k <= j

\* C17: reading an XMP uuid box whose payload has its first '<' at position
\* k > 0 stores the packet without its first k characters; a payload
\* without any '<' is stored unchanged.
C17_XmpLeadingStripped ==
  [][AtXmpBox =>
       /\ rd'.err = "none"
       /\ img'.xmpPacket =
            IF LtPositions(XmpPayload) = {} THEN XmpPayload
            ELSE SubSeq(XmpPayload, FirstLt(XmpPayload) + 1, Len(XmpPayload))]_vars

C17_Witness ==
  /\ ReadDone /\ last.err = "none"
  /\ io = FileXmpTwoLt
  /\ img.xmpPacket = <<60,97,60,62>>

(***************************************************************************)
(* C18: a uuid box too short to hold its 16-byte identifier.               *)
(***************************************************************************)
\* At pos lies the header of a uuid box that declares fewer than 24 bytes.
ShortUuidAt(pos) ==
  /\ Len(IoRead(io, pos, SizeofBox)) = SizeofBox
  /\ getLong(io, pos + 4) = kJp2BoxTypeUuid
  /\ getLong(io, pos) >= SizeofBox
  /\ getLong(io, pos) < SizeofBox + SizeofUuid

\* C18: a uuid box whose declared length is below 24 (a body of fewer than
\* 16 bytes) makes readMetadata and writeMetadata fail with
\* kerCorruptedMetadata, whatever follows the box in the stream.
C18_ShortUuidRejected ==
  [][/\ (pc = "read" /\ rd.pc = "box" /\ ShortUuidAt(rd.pos))
          => (rd'.pc = "done" /\ rd'.err = "kerCorruptedMetadata")
     /\ (pc = "write" /\ wr.pc = "box" /\ ShortUuidAt(wr.pos))
          => (wr'.pc = "done" /\ wr'.err = "kerCorruptedMetadata")]_vars

(***************************************************************************)
(* C19: the reader stays inside the box it processes.                      *)
(***************************************************************************)
\* The end of the top-level box being processed: rd.position is the offset
\* after its header, rd.boxLength its declared length.
BoxEnd == rd.position - SizeofBox + rd.boxLength

\* A step of the sub-box loop that takes the 8 bytes at rd.pos for the
\* header of a sub-box and counts it.
EntersSubBox == pc = "read" /\ rd.pc = "sub" /\ rd'.boxes = rd.boxes + 1

\* C19: while readMetadata processes a top-level box it reads and interprets
\* no byte outside the declared range of that box; in particular every
\* header the sub-box walk of jp2h interprets lies before the end of jp2h.
C19_ReadsInsideBox ==
  [][EntersSubBox => rd.pos + SizeofBox <= BoxEnd]_vars

(***************************************************************************)
(* C20: a box of length 0 in the input of writeMetadata.                   *)
(***************************************************************************)
\* The writer is at the header of a box with length field 0 that it copies
\* (neither the jp2h box, which it re-encodes, nor a uuid box).
AtZeroLengthBox ==
  /\ pc = "write" /\ wr.pc = "box"
  /\ Len(IoRead(io, wr.pos, SizeofBox)) = SizeofBox
  /\ getLong(io, wr.pos) = 0
  /\ getLong(io, wr.pos + 4) \notin {kJp2BoxTypeJp2Header, kJp2BoxTypeUuid}

\* C20: writeMetadata takes an input box with length field 0 to run to the
\* end of the file, and the box it writes for it carries the number of bytes
\* the box occupies as its length field, a non-zero value, followed by the
\* type and the payload unchanged.
C20_ZeroLengthMadeExplicit ==
  [][(AtZeroLengthBox /\ wr'.pc = "box")
       => Appended = WellBox(getLong(io, wr.pos + 4),
                             Slice(io, wr.pos + SizeofBox, Len(io) - (wr.pos + SizeofBox)))]_vars

(***************************************************************************)
(* C21, C22, C25: the jp2h box the re-encoder produces.                    *)
(***************************************************************************)
\* The jp2h box at the writer's position, as its length field bounds it.
InJp2h == Slice(io, wr.pos, getLong(io, wr.pos))

\* The fresh metadata boxes the writer emits after the jp2h box.
FreshAfterJp2h ==
  FreshUuid(kJp2UuidExif, ExifEncode(img.exifData))
    \o FreshUuid(kJp2UuidIptc, IptcEncode(img.iptcData))
    \o FreshUuid(kJp2UuidXmp,
                 IF img.writeXmpFromPacket THEN img.xmpPacket ELSE XmpEncode(img.xmpData))

\* The bytes emitted for the jp2h box: what the step appends, less the
\* fresh metadata boxes.
OutJp2h == Slice(Appended, 0, Len(Appended) - Len(FreshAfterJp2h))

\* The sub-boxes of the jp2h box b from offset off that precede its first
\* colr sub-box, as they lie in b.
RECURSIVE BeforeColr(_, _)
BeforeColr(b, off) ==
  IF Len(b) - off < SizeofBox THEN << >>
  ELSE LET length == getLong(b, off) IN
       IF getLong(b, off + 4) = kJp2BoxTypeColorHeader THEN << >>
       ELSE IF length < SizeofBox \/ length > Len(b) - off THEN << >>
       ELSE Slice(b, off, length) \o BeforeColr(b, off + length)

\* The payload of the new colr sub-box (specification 4.G).
NewColrPayload ==
  IF img.iccProfile = << >> THEN <<1,0,0,0,0,0,16,0,0,5,28,117,117,105,100>>
  ELSE <<2,0,0>> \o img.iccProfile

\* The jp2h box out is: header with type jp2h and its own size as length,
\* the sub-boxes of the input before the first colr, one new colr sub-box.
ReencodedAsStated(in, out) ==
  LET pre == BeforeColr(in, SizeofBox)
      c == Slice(out, SizeofBox + Len(pre), Len(out) - SizeofBox - Len(pre))
  IN /\ Len(out) >= SizeofBox
     /\ getLong(out, 0) = Len(out)
     /\ getLong(out, 4) = kJp2BoxTypeJp2Header
     /\ Slice(out, SizeofBox, Len(pre)) = pre
     /\ Len(c) >= SizeofBox
     /\ getLong(c, 4) = kJp2BoxTypeColorHeader
     /\ Slice(c, SizeofBox, Len(c) - SizeofBox) = NewColrPayload

\* The writer re-encodes the jp2h box at its position and goes on.
ReencodesJp2h == AtJp2h /\ getLong(io, wr.pos) # 0 /\ wr'.pc = "box"

\* C21: the jp2h box the re-encoder produces has type jp2h, a length field
\* equal to the bytes emitted for it, the sub-boxes of the input that precede
\* the first colr copied as they are and in order, then exactly one new colr
\* sub-box, and nothing after it.
C21_ReencodedJp2h ==
  [][ReencodesJp2h => ReencodedAsStated(InJp2h, OutJp2h)]_vars

\* The same for an input jp2h box that holds a colr sub-box.
ReencodedWhenColr ==
  [][(ReencodesJp2h /\ HasColrFrom(InJp2h, SizeofBox))
       => ReencodedAsStated(InJp2h, OutJp2h)]_vars

\* Somewhere in the box out lies a colr sub-box header followed by payload.
HoldsColrWith(out, payload) ==
  \E off \in SizeofBox..(Len(out) - SizeofBox) :
    /\ getLong(out, off + 4) = kJp2BoxTypeColorHeader
    /\ Slice(out, off + SizeofBox, Len(payload)) = payload

\* C22: when an ICC profile is held and the input jp2h box holds no colr
\* sub-box, the re-encoder injects a colr sub-box with the profile, so that
\* the jp2h box written holds the profile.
C22_ColrInjected ==
  [][(ReencodesJp2h /\ img.iccProfile # << >> /\ ~HasColrFrom(InJp2h, SizeofBox))
       => HoldsColrWith(OutJp2h, <<2,0,0>> \o img.iccProfile)]_vars

(***************************************************************************)
(* C23: a parser failure on a recognised uuid box.                         *)
(***************************************************************************)
\* The reader is at the header of a top-level uuid box with identifier id
\* that lies whole in the stream.
AtUuidBoxOf(id) ==
  /\ AtBoxHeader
  /\ getLong(io, rd.pos + 4) = kJp2BoxTypeUuid
  /\ getLong(io, rd.pos) >= SizeofBox + SizeofUuid
  /\ getLong(io, rd.pos) <= SizeofBox + AfterHeader
  /\ Slice(io, rd.pos + SizeofBox, SizeofUuid) = id

\* What follows the identifier in that box.
UuidPayload ==
  Slice(io, rd.pos + SizeofBox + SizeofUuid, getLong(io, rd.pos) - (SizeofBox + SizeofUuid))

\* The payload from its first '<' on (the whole payload without one).
FromFirstLt(p) ==
  IF LtPositions(p) = {} THEN p ELSE SubSeq(p, FirstLt(p) + 1, Len(p))

\* The parser the payload is handed to reports a failure.
ExifParserFails ==
  /\ AtUuidBoxOf(kJp2UuidExif)
  /\ Len(UuidPayload) > 8
  /\ ExifHeaderPos(UuidPayload) >= 0
  /\ ~TiffDecode(SubSeq(UuidPayload, ExifHeaderPos(UuidPayload) + 1, Len(UuidPayload))).ok

IptcParserFails == AtUuidBoxOf(kJp2UuidIptc) /\ ~IptcDecode(UuidPayload).ok

XmpParserFails ==
  /\ AtUuidBoxOf(kJp2UuidXmp)
  /\ FromFirstLt(UuidPayload) # << >>
  /\ ~XmpDecode(FromFirstLt(UuidPayload)).ok

\* The read goes on with the box after the one at rd.pos.
WalkContinues ==
  rd'.pc = "box" /\ rd'.err = "none" /\ rd'.pos = rd.pos + getLong(io, rd.pos)

StartsWithMark(p) == Len(p) >= 2 /\ (SubSeq(p, 1, 2) = <<73,73>> \/ SubSeq(p, 1, 2) = <<77,77>>)

\* The 0-based positions at which "Exif\0\0" lies in the payload.
MarkerPositions(p) ==
  { i \in 0..(Len(p) - 6) : SubSeq(p, i + 1, i + 6) = <<69,120,105,102,0,0>> }

FirstMarker(p) == CHOOSE i \in MarkerPositions(p) : \A j \in MarkerPositions(p) : i <= j

\* C24: reading an Exif uuid box whose payload neither starts with II or MM
\* nor holds the sequence 45 78 69 66 00 00 leaves the Exif collection
\* empty; when the payload does not start with a mark and holds the
\* sequence, what is decoded is the payload after its first occurrence.
C24_ExifHeaderSearch ==
  [][AtUuidBoxOf(kJp2UuidExif) =>
       /\ (~StartsWithMark(UuidPayload) /\ MarkerPositions(UuidPayload) = {})
            => img'.exifData = << >>
       /\ (~StartsWithMark(UuidPayload) /\ MarkerPositions(UuidPayload) # {})
            => img'.exifData =
                 TiffDecode(SubSeq(UuidPayload, FirstMarker(UuidPayload) + 7,
                                   Len(UuidPayload))).exif]_vars

\* The sub-boxes of the box b tile it from offset off: each declares the
\* bytes up to the next, and the last ends where b ends.
RECURSIVE Tiles(_, _)
Tiles(b, off) ==
  IF off = Len(b) THEN TRUE
  ELSE IF Len(b) - off < SizeofBox THEN FALSE
  ELSE LET length == getLong(b, off) IN
       IF length < SizeofBox \/ length > Len(b) - off THEN FALSE
       ELSE Tiles(b, off + length)

\* C25: every jp2h box writeMetadata emits is well formed inside: each
\* sub-box declares as its length the bytes it occupies, so that the
\* sub-boxes tile the payload of the jp2h box, with an ICC profile held and
\* with the placeholder colr.
C25_Jp2hTiled ==
  [][ReencodesJp2h => Tiles(OutJp2h, SizeofBox)]_vars

\* The same when an ICC profile is held.
Jp2hTiledWithIcc ==
  [][(ReencodesJp2h /\ img.iccProfile # << >>) => Tiles(OutJp2h, SizeofBox)]_vars

(***************************************************************************)
(* C26: the reader and the writer on the same container.                   *)
(***************************************************************************)
\* C26: a byte sequence that readMetadata accepts is processed by
\* writeMetadata without kerCorruptedMetadata and without
\* kerInputDataReadFailed; among them files with a box of declared length
\* 2..7, with a last box of length 0, and with fewer than 8 bytes after the
\* last box.
C26_ReaderWriterAgree ==
  (WriteDone /\ Accepted(src))
    => last.err \notin {"kerCorruptedMetadata", "kerInputDataReadFailed"}

(***************************************************************************)
(* C27: what a read leaves depends on the file alone.                      *)
(***************************************************************************)
\* C27: after a successful readMetadata the collections, the ICC profile and
\* the pixel dimensions are those an image that held nothing before gets
\* from the same file, whatever the image held before the call; a
\* collection whose box is not in the file is empty.
C27_ReadIndependentOfPrior ==
  (ReadDone /\ last.err = "none") => Metadata(img) = Metadata(Reread(io).img)

(***************************************************************************)
(* C28: printStructure with kpsIccProfile against readMetadata.            *)
(***************************************************************************)
\* The calls that leave the file as it is: printStructure and readMetadata.
PrintNext ==
  \/ PrintStructure
  \/ ReadMetadataBegin
  \/ ReadMetadataBox
  \/ ReadMetadataSubBox

PrintSpec == Init /\ [][PrintNext]_vars

PrintDone == pc = "idle" /\ last.op = "print"

\* C28: printStructure with the option kpsIccProfile and readMetadata agree
\* on every file; here for the blank template, which readMetadata accepts
\* with no profile stored: printStructure succeeds on it and writes to out
\* the ICC profile readMetadata stores, that is nothing.
C28_PrintAgreesWithRead ==
  (PrintDone /\ last.option = "kpsIccProfile" /\ io = Jp2Blank) =>
    /\ Accepted(io)
    /\ last.err = "none"
    /\ last.out = Reread(io).img.iccProfile

(***************************************************************************)
(* C29: the box loop of doWriteMetadata terminates.                        *)
(***************************************************************************)
InWriteLoop == pc = "write" /\ wr.pc = "box"

CodeSize == 256
CipherModulus == 249
Uninitialized == -1

\* (i * i * i) % 249
CipherCodeSquare(i) == (i * i) % CipherModulus

CipherCode(i) == (i * i * i) % CipherModulus

\* The indices i of the first loop that write code[k] when deciphering.
WritersOf(k) == { i \in 0..(CipherModulus - 1) : CipherCode(i) = k }

\* code[k] after the first loop: when deciphering the last i written to it,
\* if any; when enciphering the code of k.
FirstLoop(k, bDecipher) ==
  IF ~bDecipher THEN CipherCode(k)
  ELSE IF WritersOf(k) = {} THEN Uninitialized
  ELSE CHOOSE i \in WritersOf(k) : \A j \in WritersOf(k) : j <= i

\* The code table after both loops.
CodeTable(bDecipher) ==
  [k \in 0..(CodeSize - 1) |-> IF k >= CipherModulus THEN k ELSE FirstLoop(k, bDecipher)]

\* What code[b] may be read as.
CodeAt(code, b) == IF code[b] = Uninitialized THEN 0..(CodeSize - 1) ELSE {code[b]}

\* "code byte-by-byte": the buffers the call may return.
RECURSIVE CodeBytes(_, _)
CodeBytes(code, bytes) ==
  IF bytes = << >> THEN { << >> }
  ELSE { <<h>> \o t : h \in CodeAt(code, Head(bytes)), t \in CodeBytes(code, Tail(bytes)) }

\* The two tables the calls work with.
DecipherTable == CodeTable(TRUE)
EncipherTable == CodeTable(FALSE)

sonyTagCipher(bytes, bDecipher) ==
  CodeBytes(IF bDecipher THEN DecipherTable ELSE EncipherTable, bytes)

sonyTagDecipher(bytes) == sonyTagCipher(bytes, TRUE)

sonyTagEncipher(bytes) == sonyTagCipher(bytes, FALSE)

\* The byte strings the functions are called with: the empty one, every
\* single byte, and the pairs of a few bytes; and how many calls are chained.
CipherPairBytes == {0, 2, 248, 249, 255}
CipherInputs ==
  { << >> } \cup { <<b>> : b \in 0..(CodeSize - 1) }
    \cup { <<b, c>> : b \in CipherPairBytes, c \in CipherPairBytes }
MaxCipherCalls == 2

CipherOps == {"sonyTagEncipher", "sonyTagDecipher"}

\* A call on the bytes at hand: last.origin is the input the chain of calls
\* began with, last.ops the calls made, last.out what the last one returned.
CipherCall(op, results) ==
  /\ pc = "idle"
  /\ Len(last.ops) < MaxCipherCalls
  /\ \E o \in results :
       last' = [last EXCEPT !.op = op, !.ops = Append(last.ops, op), !.out = o]
  /\ UNCHANGED <<io, img, pc, rd, wr, src, readOk, nSets, nWrites>>

SonyTagEncipher == CipherCall("sonyTagEncipher", sonyTagEncipher(last.out))

SonyTagDecipher == CipherCall("sonyTagDecipher", sonyTagDecipher(last.out))

CipherInit ==
  /\ \E s \in CipherInputs :
       last = [op |-> "none", err |-> "none", origin |-> s, ops |-> << >>, out |-> s]
  /\ io = Jp2Blank
  /\ img = EmptyImage
  /\ pc = "idle"
  /\ rd = ReadLocals0
  /\ wr = WriteLocals0
  /\ src = io
  /\ readOk = FALSE
  /\ nSets = 0
  /\ nWrites = 0

CipherNext == SonyTagEncipher \/ SonyTagDecipher

CipherSpec == CipherInit /\ [][CipherNext]_vars

(***************************************************************************)
(* C30: sonyTagDecipher and sonyTagEncipher are inverse permutations.      *)
(***************************************************************************)
CipherDone == last.op \in CipherOps

\* C30: i -> i^3 mod 249 is a bijection on 0..248, so the decipher table is
\* fully defined; sonyTagEncipher and sonyTagDecipher return as many bytes
\* as they are given and leave the values 249..255 as they are; and
\* deciphering what was enciphered, or enciphering what was deciphered,
\* gives the bytes back.
C30_CipherInverse ==
  CipherDone =>
    /\ Cardinality({ CipherCode(i) : i \in 0..(CipherModulus - 1) }) = CipherModulus
    /\ \A k \in 0..(CodeSize - 1) : DecipherTable[k] # Uninitialized
    /\ Len(last.out) = Len(last.origin)
    /\ \A i \in 1..Len(last.origin) : last.origin[i] >= CipherModulus => last.out[i] = last.origin[i]
    /\ last.ops \in { <<"sonyTagEncipher", "sonyTagDecipher">>,
                      <<"sonyTagDecipher", "sonyTagEncipher">> }
         => last.out = last.origin

C30_Witness ==
  /\ last.op = "sonyTagDecipher"
  /\ last.ops = <<"sonyTagEncipher", "sonyTagDecipher">>
  /\ last.origin = <<2, 249>>
  /\ last.out = <<2, 249>>
  /\ <<8, 249>> \in sonyTagEncipher(last.origin)

=============================================================================
